---- MODULE Spec2Model ----
(***************************************************************************)
(* The authentication core of backend_fastroute: routes/auth.js (login,    *)
(* register, verify), middleware/auth.js (authenticateToken) and the       *)
(* mounting of the gate in server.js.  Every `await` of a handler is one   *)
(* step, so requests interleave exactly where Node lets them.              *)
(*                                                                         *)
(* Strings whose content the code inspects (email, cpf, nome, telefone,    *)
(* senha) are sequences of one-character strings.  The clock `now` is the  *)
(* token clock; one unit stands for 12 hours.                              *)
(***************************************************************************)
EXTENDS Integers, Sequences, FiniteSets

\* ------------------------------------------------------------------ bounds
NReq == 2
MaxUsers == 2
MaxTime == 2
MaxLogins == 1
MaxTarefas == 1

\* ------------------------------------------------------- program constants
\* expiresIn: '24h' (two clock units of 12 hours)
TokenTTL == 2
saltRounds == 12
JWT_SECRET == "sua_chave_secreta_super_segura_aqui_mude_em_producao"

Slots == 1..NReq

\* ----------------------------------------------------------------- strings
Digit == {"0", "1", "2", "3", "4", "5", "6", "7", "8", "9"}

ToLower(c) ==
  CASE c = "A" -> "a"
    [] c = "B" -> "b"
    [] c = "I" -> "i"
    [] c = "N" -> "n"
    [] c = "X" -> "x"
    [] OTHER -> c

Positions(s, c) == {i \in 1..Len(s) : s[i] = c}

\* express-validator isEmail: one "@", a local part, a dotted domain whose
\* last label has at least two characters
isEmail(s) ==
  /\ Cardinality(Positions(s, "@")) = 1
  /\ LET at == CHOOSE i \in Positions(s, "@") : TRUE
         dots == {i \in Positions(s, ".") : i > at}
     IN /\ at > 1
        /\ dots # {}
        /\ \A i \in dots : i > at + 1 /\ i < Len(s) /\ s[i + 1] # "."
        /\ \A i \in dots : (\A j \in dots : j <= i) => Len(s) - i >= 2
  /\ \A i \in 1..Len(s) : s[i] # " "

\* express-validator normalizeEmail (all_lowercase, domain lowercased)
normalizeEmail(s) == [i \in 1..Len(s) |-> ToLower(s[i])]

\* /^\d{3}\.\d{3}\.\d{3}-\d{2}$/
matchesCpf(s) ==
  /\ Len(s) = 14
  /\ s[4] = "." /\ s[8] = "." /\ s[12] = "-"
  /\ \A i \in (1..14) \ {4, 8, 12} : s[i] \in Digit

\* /^\(\d{2}\) \d{4,5}-\d{4}$/
matchesTelefone(s) ==
  /\ Len(s) \in {14, 15}
  /\ s[1] = "(" /\ s[4] = ")" /\ s[5] = " " /\ s[Len(s) - 4] = "-"
  /\ \A i \in (1..Len(s)) \ {1, 4, 5, Len(s) - 4} : s[i] \in Digit

RECURSIVE TrimLeft(_)
TrimLeft(s) == IF s # <<>> /\ Head(s) = " " THEN TrimLeft(Tail(s)) ELSE s

RECURSIVE TrimRight(_)
TrimRight(s) ==
  IF s # <<>> /\ s[Len(s)] = " " THEN TrimRight(SubSeq(s, 1, Len(s) - 1)) ELSE s

trim(s) == TrimRight(TrimLeft(s))

\* bcryptjs: the hash embeds the cost and is never the plaintext
BcryptHash(senha, rounds) == [alg |-> "bcrypt", cost |-> rounds, of |-> senha]

BcryptCompare(senha, h) == h.of = senha

\* ------------------------------------------------------------------ inputs
Undefined == <<>>

EAna == <<"a", "n", "a", "@", "x", ".", "c", "o">>
EAnaUpper == <<"A", "n", "a", "@", "X", ".", "c", "o">>
EBia == <<"b", "i", "a", "@", "x", ".", "c", "o">>
EBad == <<"a", "n", "a", ".", "x">>

Cpf1 == <<"1", "2", "3", ".", "4", "5", "6", ".", "7", "8", "9", "-", "0", "1">>
Cpf2 == <<"9", "8", "7", ".", "6", "5", "4", ".", "3", "2", "1", "-", "0", "0">>
CpfBad == <<"1", "2", "3", "4", "5", "6", "7", "8", "9", "0", "1">>

NAna == <<"A", "n", "a">>
NBia == <<" ", "B", "i", "a">>
NShort == <<"A">>

SBoa == <<"s", "e", "g", "r", "e", "d", "o", "1">>
SOutra == <<"e", "r", "r", "a", "d", "a", "9">>
SCurta == <<"a", "b", "c">>

TelBad == <<"9", "9", "9">>

RegBody(n, c, e, t, s) == [nome |-> n, cpf |-> c, email |-> e, telefone |-> t, senha |-> s]

RegisterBodies ==
  { RegBody(NAna, Cpf1, EAna, Undefined, SBoa),
    RegBody(NAna, Cpf2, EAnaUpper, Undefined, SBoa),
    RegBody(NBia, Cpf1, EBia, Undefined, SBoa),
    RegBody(NShort, CpfBad, EBad, TelBad, SCurta) }

LoginBody(e, s) == [email |-> e, senha |-> s]

LoginBodies ==
  { LoginBody(EAna, SBoa),
    LoginBody(EAnaUpper, SBoa),
    LoginBody(EAna, SOutra),
    LoginBody(EBia, SCurta),
    LoginBody(EBad, SBoa),
    LoginBody(EAna, <<>>) }

\* ------------------------------------------------------------------- state
\* usuarios: the usuarios table, row i has id i.  tarefas: rows of the tarefas
\* table.  now: the clock.  issued: the tokens handed out in responses.
\* reqs: the requests being served, one per slot.  sent201: one entry per
\* 201 answered by /register.  last: what the step just taken sent or let
\* through (a response, a pass of the gate), None otherwise; the next step
\* is taken once it has gone out.
VARIABLES usuarios, tarefas, now, issued, reqs, sent201, last

vars == <<usuarios, tarefas, now, issued, reqs, sent201, last>>

Idle == [kind |-> "none", pc |-> "idle"]

NoUser == [id |-> 0, nome |-> <<>>, email |-> <<>>]

NoPayload == [userId |-> 0, email |-> <<>>, nome |-> <<>>, iat |-> 0, exp |-> 0]

NoToken == [payload |-> NoPayload, sig |-> <<>>]

None == [kind |-> "none", pc |-> "none"]

Free(r) == reqs[r].pc = "idle" /\ last = None

\* the step of request r ends in x: a response (the request is over and the
\* response is the step's output) or the state of the handler at its next await
Reply(r, x) ==
  /\ last = None
  /\ reqs' = [reqs EXCEPT ![r] = IF x.pc = "done" THEN Idle ELSE x]
  /\ last' = IF x.pc = "done" THEN x ELSE None

\* request r goes on as x and the step lets ev be seen
Pass(r, x, ev) ==
  /\ last = None
  /\ reqs' = [reqs EXCEPT ![r] = x]
  /\ last' = ev

InFlight(k) == {r \in Slots : reqs[r].kind = k /\ ~Free(r)}

\* ------------------------------------------------------------------- token
\* jsonwebtoken sign: the claims, iat and exp = iat + 24h, signed with the key
jwtSign(claims, secret, expiresIn, clock) ==
  LET p == [userId |-> claims.userId, email |-> claims.email, nome |-> claims.nome,
            iat |-> clock, exp |-> clock + expiresIn]
  IN [payload |-> p, sig |-> <<p, secret>>]

\* jsonwebtoken verify: the signature is over this payload with this key, and
\* the clock is before exp
jwtVerifies(token, secret, clock) ==
  /\ token.sig = <<token.payload, secret>>
  /\ clock < token.payload.exp

\* faulty variant: the token lives twice as long
generateTokenLong(userId, email, nome, clock) ==
  jwtSign([userId |-> userId, email |-> email, nome |-> nome], JWT_SECRET,
          TokenTTL + TokenTTL, clock)

generateToken(userId, email, nome, clock) ==
  jwtSign([userId |-> userId, email |-> email, nome |-> nome], JWT_SECRET, TokenTTL, clock)

\* ------------------------------------------------------------------- store
SelectByEmail(e) == {i \in DOMAIN usuarios : usuarios[i].email = e}

SelectByCpf(c) == {i \in DOMAIN usuarios : usuarios[i].cpf = c}

SelectActiveByEmail(e) == {i \in DOMAIN usuarios : usuarios[i].email = e /\ usuarios[i].ativo}

\* faulty variant: the SELECT of /verify without "AND ativo = true"
SelectById(id) == {i \in DOMAIN usuarios : i = id}

SelectActiveById(id) == {i \in DOMAIN usuarios : i = id /\ usuarios[i].ativo}

\* the unique constraints of usuarios (email, cpf): the insert raises 23505
UniqueViolation(row) ==
  \E i \in DOMAIN usuarios : usuarios[i].email = row.email \/ usuarios[i].cpf = row.cpf

\* the row the INSERT stores: ativo defaults to true, ultima_atualizacao unset
NewRow(nome, cpf, email, telefone, senhaHash) ==
  [nome |-> nome, cpf |-> cpf, email |-> email, telefone |-> telefone,
   senha |-> senhaHash, ativo |-> TRUE, ultima_atualizacao |-> -1]

PublicUser(id) == [id |-> id, nome |-> usuarios[id].nome, email |-> usuarios[id].email]

\* ---------------------------------------------------------------- register
RegisterErrors(b) ==
  {f \in {"nome", "cpf", "email", "telefone", "senha"} :
     \/ f = "nome" /\ ~(Len(b.nome) >= 2 /\ Len(b.nome) <= 100)
     \/ f = "cpf" /\ ~matchesCpf(b.cpf)
     \/ f = "email" /\ ~isEmail(b.email)
     \/ f = "telefone" /\ b.telefone # Undefined /\ ~matchesTelefone(b.telefone)
     \/ f = "senha" /\ ~(Len(b.senha) >= 6)}

RegisterSanitize(b) == [b EXCEPT !.nome = trim(b.nome), !.email = normalizeEmail(b.email)]

RegDone(status, error, details, io, collision, fault, token, user) ==
  [kind |-> "register", pc |-> "done", status |-> status, error |-> error,
   details |-> details, io |-> io, collision |-> collision, fault |-> fault,
   token |-> token, user |-> user]

\* faulty variant: the catch of /register answers as if the INSERT had succeeded
RegisterCatchSwallows(io, collision, fault) ==
  RegDone(201, "", "absent", io, collision, fault, NoToken, NoUser)

\* the catch of /register: 500 for whatever was thrown
RegisterCatch(io, collision, fault) ==
  RegDone(500, "Erro interno do servidor", "err.message", io, collision, fault, NoToken, NoUser)

\* POST /register up to the first await: validation, then the email SELECT is sent
Register(r, b) ==
  /\ Free(r)
  /\ Len(usuarios) + Cardinality(InFlight("register")) < MaxUsers
  /\ Reply(r,
       IF RegisterErrors(b) # {}
       THEN RegDone(400, "Dados inválidos", "errors.array()", "none", FALSE, FALSE, NoToken, NoUser)
       ELSE [kind |-> "register", pc |-> "emailCheck", body |-> RegisterSanitize(b)])
  /\ UNCHANGED <<usuarios, tarefas, now, issued, sent201>>

RegEmailCheck(r) ==
  /\ reqs[r].kind = "register" /\ reqs[r].pc = "emailCheck"
  /\ \/ Reply(r,
          IF SelectByEmail(reqs[r].body.email) # {}
          THEN RegDone(409, "Este email já está cadastrado", "absent", "read", TRUE, FALSE, NoToken, NoUser)
          ELSE [reqs[r] EXCEPT !.pc = "cpfCheck"])
     \/ Reply(r, RegisterCatch("none", FALSE, TRUE))
  /\ UNCHANGED <<usuarios, tarefas, now, issued, sent201>>

RegCpfCheck(r) ==
  /\ reqs[r].kind = "register" /\ reqs[r].pc = "cpfCheck"
  /\ \/ Reply(r,
          IF SelectByCpf(reqs[r].body.cpf) # {}
          THEN RegDone(409, "Este CPF já está cadastrado", "absent", "read", TRUE, FALSE, NoToken, NoUser)
          ELSE [reqs[r] EXCEPT !.pc = "hash"])
     \/ Reply(r, RegisterCatch("read", FALSE, TRUE))
  /\ UNCHANGED <<usuarios, tarefas, now, issued, sent201>>

RegHash(r) ==
  /\ reqs[r].kind = "register" /\ reqs[r].pc = "hash"
  /\ Reply(r,
       [kind |-> "register", pc |-> "insert", body |-> reqs[r].body,
        senhaHash |-> BcryptHash(reqs[r].body.senha, saltRounds)])
  /\ UNCHANGED <<usuarios, tarefas, now, issued, sent201>>

\* the 201 a step answers, for the email and cpf of its row
Logged201(x, row) ==
  IF x.status = 201 THEN {[id |-> x.user.id, email |-> row.email, cpf |-> row.cpf]} ELSE {}

\* the INSERT and what follows it: the token, the 201; the catch answers
\* for whatever the INSERT throws
RegInsert(r) ==
  /\ reqs[r].kind = "register" /\ reqs[r].pc = "insert"
  /\ LET b == reqs[r].body
         row == NewRow(b.nome, b.cpf, b.email, b.telefone, reqs[r].senhaHash)
         id == Len(usuarios) + 1
         token == generateToken(id, row.email, row.nome, now)
         created == RegDone(201, "", "absent", "write", FALSE, FALSE, token,
                            [id |-> id, nome |-> row.nome, email |-> row.email])
     IN \/ /\ UniqueViolation(row)
           /\ Reply(r, RegisterCatch("read", TRUE, FALSE))
           /\ sent201' = sent201 \cup Logged201(RegisterCatch("read", TRUE, FALSE), row)
           /\ UNCHANGED <<usuarios, issued>>
        \/ /\ ~UniqueViolation(row)
           /\ usuarios' = Append(usuarios, row)
           /\ issued' = issued \cup {token}
           /\ sent201' = sent201 \cup Logged201(created, row)
           /\ Reply(r, created)
        \/ /\ Reply(r, RegisterCatch("read", FALSE, TRUE))
           /\ sent201' = sent201 \cup Logged201(RegisterCatch("read", FALSE, TRUE), row)
           /\ UNCHANGED <<usuarios, issued>>
  /\ UNCHANGED <<tarefas, now>>

\* ------------------------------------------------------------------- login
LoginErrors(b) ==
  {f \in {"email", "senha"} :
     \/ f = "email" /\ ~isEmail(b.email)
     \/ f = "senha" /\ ~(Len(b.senha) >= 1)}

LoginSanitize(b) == [b EXCEPT !.email = normalizeEmail(b.email)]

LoginDone(status, error, details, io, cause, fault, token, user) ==
  [kind |-> "login", pc |-> "done", status |-> status, error |-> error,
   details |-> details, io |-> io, cause |-> cause, fault |-> fault,
   token |-> token, user |-> user]

\* faulty variant: the answer tells that the email is not known
LoginNoUserLeaky(cause) ==
  LoginDone(401, "Usuário não encontrado", "absent", "read", cause, FALSE, NoToken, NoUser)

\* the answer when the SELECT finds no active user with the email
LoginNoUser(cause) ==
  LoginDone(401, "Email ou senha incorretos", "absent", "read", cause, FALSE, NoToken, NoUser)

\* the answer when bcrypt.compare is false
LoginBadPassword ==
  LoginDone(401, "Email ou senha incorretos", "absent", "read", "senha", FALSE, NoToken, NoUser)

Login500(io) ==
  LoginDone(500, "Erro interno do servidor", "err.message", io, "none", TRUE, NoToken, NoUser)

\* POST /login up to the first await
Login(r, b) ==
  /\ Free(r)
  /\ Cardinality(issued) + Cardinality(InFlight("login")) < Len(usuarios) + MaxLogins
  /\ Reply(r,
       IF LoginErrors(b) # {}
       THEN LoginDone(400, "Dados inválidos", "errors.array()", "none", "none", FALSE, NoToken, NoUser)
       ELSE [kind |-> "login", pc |-> "lookup", body |-> LoginSanitize(b)])
  /\ UNCHANGED <<usuarios, tarefas, now, issued, sent201>>

LoginLookup(r) ==
  /\ reqs[r].kind = "login" /\ reqs[r].pc = "lookup"
  /\ LET rows == SelectActiveByEmail(reqs[r].body.email)
     IN \/ /\ rows = {}
           /\ Reply(r,
                LoginNoUser(IF SelectByEmail(reqs[r].body.email) = {} THEN "unknown" ELSE "inactive"))
        \/ \E i \in rows :
             Reply(r,
               [kind |-> "login", pc |-> "compare", body |-> reqs[r].body,
                user |-> [id |-> i, nome |-> usuarios[i].nome, email |-> usuarios[i].email,
                          senha |-> usuarios[i].senha]])
        \/ Reply(r, Login500("none"))
  /\ UNCHANGED <<usuarios, tarefas, now, issued, sent201>>

\* bcrypt.compare, then generateToken, then the UPDATE is sent
LoginCompare(r) ==
  /\ reqs[r].kind = "login" /\ reqs[r].pc = "compare"
  /\ LET user == reqs[r].user
     IN Reply(r,
          IF ~BcryptCompare(reqs[r].body.senha, user.senha)
          THEN LoginBadPassword
          ELSE [kind |-> "login", pc |-> "update", user |-> user,
                token |-> generateToken(user.id, user.email, user.nome, now)])
  /\ UNCHANGED <<usuarios, tarefas, now, issued, sent201>>

\* faulty variant: the UPDATE without its WHERE
TouchEveryRow(id) ==
  [i \in DOMAIN usuarios |-> [usuarios[i] EXCEPT !.ultima_atualizacao = now]]

\* UPDATE usuarios SET ultima_atualizacao = CURRENT_TIMESTAMP WHERE id = $1
TouchLastActivity(id) ==
  [i \in DOMAIN usuarios |->
     IF i = id THEN [usuarios[i] EXCEPT !.ultima_atualizacao = now] ELSE usuarios[i]]

LoginUpdate(r) ==
  /\ reqs[r].kind = "login" /\ reqs[r].pc = "update"
  /\ LET user == reqs[r].user
     IN \/ /\ usuarios' = TouchLastActivity(user.id)
           /\ issued' = issued \cup {reqs[r].token}
           /\ Reply(r,
                LoginDone(200, "", "absent", "write", "none", FALSE, reqs[r].token,
                          [id |-> user.id, nome |-> user.nome, email |-> user.email]))
        \/ /\ Reply(r, Login500("read"))
           /\ UNCHANGED <<usuarios, issued>>
  /\ UNCHANGED <<tarefas, now, sent201>>

\* ----------------------------------------------------------------- headers
\* The Authorization header is the list of its parts between single spaces,
\* which is what split(' ') returns; <<>> is the absent header.  A part is
\* a piece of text or a token.
Word(text) == [text |-> text, token |-> NoToken]

TokenWord(t) == [text |-> "jwt", token |-> t]

Absent == <<>>

\* authHeader && authHeader.split(' ')[1]
ExtractToken(h) ==
  IF h = Absent THEN Word("")
  ELSE IF h = <<Word("")>> THEN Word("")
  ELSE IF Len(h) >= 2 THEN h[2]
  ELSE Word("")

\* faulty variant: the signature is checked and the expiry is not
VerifyTokenIgnoreExpiration(w, clock) == w.text = "jwt" /\ w.token.sig = <<w.token.payload, JWT_SECRET>>

\* jwt.verify(token, JWT_SECRET)
VerifyToken(w, clock) == w.text = "jwt" /\ jwtVerifies(w.token, JWT_SECRET, clock)

\* what a client can put in a header: a token it was given, that token with
\* its expiry pushed forward, the same claims signed with another key
Tampered(t) == [t EXCEPT !.payload.exp = t.payload.exp + TokenTTL]

SelfSigned(t) == [payload |-> t.payload, sig |-> <<t.payload, "chave_do_cliente">>]

Headers ==
  {Absent, <<Word("")>>, <<Word("Bearer")>>, <<Word("Bearer"), Word("abc")>>}
  \cup {<<Word("Bearer"), TokenWord(t)>> : t \in issued}
  \cup {<<Word("Bearer"), TokenWord(Tampered(t))>> : t \in issued}
  \cup {<<Word("Bearer"), TokenWord(SelfSigned(t))>> : t \in issued}
  \cup {<<Word("Basic"), TokenWord(t)>> : t \in issued}
  \cup {<<Word("Bearer"), TokenWord(t), Word("x")>> : t \in issued}
  \cup {<<Word("Bearer"), Word(""), TokenWord(t)>> : t \in issued}
  \cup {<<TokenWord(t)>> : t \in issued}

\* the header has the form "Bearer <token>"
BearerForm(h) == Len(h) = 2 /\ h[1] = Word("Bearer") /\ h[2].text # ""

\* ------------------------------------------------------------------ verify
\* the answer of /verify before the await
VerifyRefused(status, error, bearer, tok) ==
  [kind |-> "verify", pc |-> "done", stage |-> "token", status |-> status, error |-> error,
   details |-> "absent", bearer |-> bearer, tok |-> tok, fault |-> FALSE]

\* the answer of /verify after the SELECT
VerifyDone(status, error, decoded, fault, user) ==
  [kind |-> "verify", pc |-> "done", stage |-> "lookup", status |-> status, error |-> error,
   details |-> "absent", decoded |-> decoded, fault |-> fault, user |-> user]

\* GET /verify up to the await: the token is extracted and verified
Verify(r, h) ==
  /\ Free(r)
  /\ LET w == ExtractToken(h)
     IN IF w.text = ""
        THEN Reply(r, VerifyRefused(401, "Token não fornecido", BearerForm(h), w))
        ELSE IF ~VerifyToken(w, now)
        THEN Reply(r, VerifyRefused(401, "Token inválido", BearerForm(h), w))
        ELSE Pass(r, [kind |-> "verify", pc |-> "lookup", decoded |-> w.token.payload],
                  [kind |-> "verify", pc |-> "verified", bearer |-> BearerForm(h), tok |-> w])
  /\ UNCHANGED <<usuarios, tarefas, now, issued, sent201>>

\* the SELECT by id of an active user and the answer; the catch of the
\* handler answers 401 for whatever was thrown
VerifyLookup(r) ==
  /\ reqs[r].kind = "verify" /\ reqs[r].pc = "lookup"
  /\ LET decoded == reqs[r].decoded
         rows == SelectActiveById(decoded.userId)
     IN \/ /\ rows = {}
           /\ Reply(r, VerifyDone(401, "Usuário não encontrado ou inativo", decoded, FALSE, NoUser))
        \/ \E i \in rows : Reply(r, VerifyDone(200, "", decoded, FALSE, PublicUser(i)))
        \/ Reply(r, VerifyDone(401, "Token inválido", decoded, TRUE, NoUser))
  /\ UNCHANGED <<usuarios, tarefas, now, issued, sent201>>

\* -------------------------------------------------------------- the routes
\* A path is the list of its segments; a route is a method and a path.
IsPrefix(p, q) == Len(p) <= Len(q) /\ SubSeq(q, 1, Len(p)) = p

AuthMount == <<"api", "auth">>

ProtectedPrefixes ==
  {<<"api", "tarefas">>, <<"api", "motoristas">>, <<"api", "caminhoes">>,
   <<"api", "estatisticas">>}

\* app.use(prefix, authenticateToken) for the four prefixes
Gated(path) == \E p \in ProtectedPrefixes : IsPrefix(p, path)

\* the order of the mounts: the auth router first, then /health, then the gate
RouteOf(path) ==
  IF IsPrefix(AuthMount, path) THEN "auth"
  ELSE IF path = <<"health">> THEN "health"
  ELSE IF Gated(path) THEN "gate"
  ELSE "404"

LoginPath == <<"api", "auth", "login">>
RegisterPath == <<"api", "auth", "register">>
VerifyPath == <<"api", "auth", "verify">>

Route(method, path) == [method |-> method, path |-> path]

ApiRoutes ==
  {Route("POST", <<"api", "tarefas">>), Route("GET", <<"api", "motoristas">>),
   Route("GET", <<"api", "caminhoes">>),
   Route("GET", <<"api", "estatisticas", "total_motoristas">>),
   Route("GET", <<"health">>)}

\* -------------------------------------------------------------------- gate
GateResult(next, status, error, user) ==
  [next |-> next, status |-> status, error |-> error, user |-> user]

\* faulty variant: the error branch of the jwt.verify callback does not return
authenticateTokenNoReturn(h, clock) ==
  LET w == ExtractToken(h)
  IN IF w.text = ""
     THEN GateResult(FALSE, 401, "Token de acesso requerido", NoPayload)
     ELSE GateResult(TRUE, 0, "", IF VerifyToken(w, clock) THEN w.token.payload ELSE NoPayload)

\* middleware/auth.js authenticateToken: 401 without a token, 403 when
\* jwt.verify fails, else req.user = the decoded payload and next()
authenticateToken(h, clock) ==
  LET w == ExtractToken(h)
  IN IF w.text = ""
     THEN GateResult(FALSE, 401, "Token de acesso requerido", NoPayload)
     ELSE IF ~VerifyToken(w, clock)
     THEN GateResult(FALSE, 403, "Token inválido ou expirado", NoPayload)
     ELSE GateResult(TRUE, 0, "", w.token.payload)

\* the answer of the gate when it rejects
ApiRejected(route, status, error, bearer, tok) ==
  [kind |-> "api", pc |-> "done", route |-> route, status |-> status, error |-> error,
   details |-> "absent", bearer |-> bearer, tok |-> tok, user |-> NoPayload,
   gate |-> "rejected", ran |-> FALSE, fault |-> FALSE]

\* the answer of a handler
ApiDone(route, status, error, details, user, gate, fault) ==
  [kind |-> "api", pc |-> "done", route |-> route, status |-> status, error |-> error,
   details |-> details, user |-> user, gate |-> gate, ran |-> TRUE, fault |-> fault]

\* a request to one of the other routes: through the gate when the path is
\* under a protected prefix, then on to the handler
Api(r, route, h, completo) ==
  /\ Free(r)
  /\ RouteOf(route.path) \in {"gate", "health"}
  /\ route.method = "POST" => tarefas + Cardinality(InFlight("api")) < MaxTarefas
  /\ route.method = "GET" => completo
  /\ LET g == authenticateToken(h, now)
         w == ExtractToken(h)
     IN IF RouteOf(route.path) = "gate" /\ ~g.next
        THEN Reply(r, ApiRejected(route, g.status, g.error, BearerForm(h), w))
        ELSE IF RouteOf(route.path) = "gate"
        THEN Pass(r, [kind |-> "api", pc |-> "handler", route |-> route,
                      completo |-> completo, user |-> g.user, gate |-> "passed"],
                  [kind |-> "api", pc |-> "passed", route |-> route,
                   bearer |-> BearerForm(h), tok |-> w, user |-> g.user])
        ELSE Pass(r, [kind |-> "api", pc |-> "handler", route |-> route,
                      completo |-> completo, user |-> NoPayload, gate |-> "none"], None)
  /\ UNCHANGED <<usuarios, tarefas, now, issued, sent201>>

\* the handlers of server.js: POST /api/tarefas inserts a row when the
\* required fields are there, the GET routes read
Handler(r) ==
  /\ reqs[r].kind = "api" /\ reqs[r].pc = "handler"
  /\ LET q == reqs[r]
         done(status, error, details, fault) ==
           ApiDone(q.route, status, error, details, q.user, q.gate, fault)
     IN \/ /\ q.route.method = "POST" /\ ~q.completo
           /\ Reply(r, done(400, "Campos obrigatórios: código, cliente, endereço, tipo, equipamento e peso",
                            "absent", FALSE))
           /\ UNCHANGED tarefas
        \/ /\ q.route.method = "POST" /\ q.completo
           /\ tarefas' = tarefas + 1
           /\ Reply(r, done(201, "", "absent", FALSE))
        \/ /\ q.route.method = "GET"
           /\ Reply(r, done(200, "", "absent", FALSE))
           /\ UNCHANGED tarefas
        \/ /\ q.route.method = "GET" \/ q.completo
           /\ Reply(r, done(500, "Erro interno do servidor", "err.message", TRUE))
           /\ UNCHANGED tarefas
  /\ UNCHANGED <<usuarios, now, issued, sent201>>

\* ------------------------------------------------------------- environment
\* the clock advances
Tick ==
  /\ last = None
  /\ now < MaxTime
  /\ now' = now + 1
  /\ last' = None
  /\ UNCHANGED <<usuarios, tarefas, issued, reqs, sent201>>

\* an account is deactivated in the store (ativo = false), by no route of
\* this server
Deactivate(i) ==
  /\ last = None
  /\ i \in DOMAIN usuarios
  /\ usuarios[i].ativo
  /\ usuarios' = [usuarios EXCEPT ![i].ativo = FALSE]
  /\ last' = None
  /\ UNCHANGED <<tarefas, now, issued, reqs, sent201>>

Init ==
  /\ usuarios = <<>>
  /\ tarefas = 0
  /\ now = 0
  /\ issued = {}
  /\ reqs = [r \in Slots |-> Idle]
  /\ last = None
  /\ sent201 = {}

\* what the last step sent has gone out; nothing else changes
Sent ==
  /\ last # None
  /\ last' = None
  /\ UNCHANGED <<usuarios, tarefas, now, issued, reqs, sent201>>

\* One client: its requests come one after the other, the clock and the
\* deactivation of accounts interleave with their steps.
Client == CHOOSE r \in Slots : TRUE

Next ==
  \/ \E b \in RegisterBodies : Register(Client, b)
  \/ RegEmailCheck(Client)
  \/ RegCpfCheck(Client)
  \/ RegHash(Client)
  \/ RegInsert(Client)
  \/ \E b \in LoginBodies : Login(Client, b)
  \/ LoginLookup(Client)
  \/ LoginCompare(Client)
  \/ LoginUpdate(Client)
  \/ \E h \in Headers : Verify(Client, h)
  \/ VerifyLookup(Client)
  \/ \E route \in ApiRoutes, h \in Headers, completo \in BOOLEAN :
       Api(Client, route, h, completo)
  \/ Handler(Client)
  \/ Tick
  \/ \E i \in 1..MaxUsers : Deactivate(i)
  \/ Sent

Spec == Init /\ [][Next]_vars

\* Registrations on every connection at once: their steps interleave at
\* each await.
NextRace ==
  \/ \E r \in Slots, b \in RegisterBodies : Register(r, b)
  \/ \E r \in Slots : RegEmailCheck(r)
  \/ \E r \in Slots : RegCpfCheck(r)
  \/ \E r \in Slots : RegHash(r)
  \/ \E r \in Slots : RegInsert(r)
  \/ Sent

SpecRace == Init /\ [][NextRace]_vars

\* ------------------------------------------------------------------ claims
IssuedPayloads == {t.payload : t \in issued}

IsEvent(kind, pc) == last.kind = kind /\ last.pc = pc

GatePassed == IsEvent("api", "passed")

GateRejected == IsEvent("api", "done") /\ last.gate = "rejected"

HandlerAnswered == IsEvent("api", "done") /\ last.ran

VerifyAnswered == IsEvent("verify", "done") /\ last.stage = "lookup"

VerifyRefusedEarly == IsEvent("verify", "done") /\ last.stage = "token"

AuthPaths == {LoginPath, RegisterPath, VerifyPath}

\* what C1 asks of one step
C1_Step ==
  /\ \A p \in AuthPaths : RouteOf(p) = "auth"
  /\ \A p \in ProtectedPrefixes : RouteOf(p) = "gate" /\ RouteOf(Append(p, "7")) = "gate"
  /\ GatePassed' =>
       /\ last'.tok.token \in issued
       /\ now < last'.tok.token.payload.exp
       /\ last'.user = last'.tok.token.payload
       /\ reqs'[Client].pc = "handler" /\ reqs'[Client].user = last'.user
  /\ GateRejected' =>
       /\ last'.status = (IF last'.tok.text = "" THEN 401 ELSE 403)
       /\ ~(last'.tok.token \in issued /\ now < last'.tok.token.payload.exp)
       /\ reqs'[Client] = Idle
       /\ usuarios' = usuarios /\ tarefas' = tarefas
  /\ (reqs'[Client].kind = "api" /\ reqs'[Client].pc = "handler" /\ Gated(reqs'[Client].route.path)) =>
       reqs'[Client].gate = "passed" /\ reqs'[Client].user \in IssuedPayloads
  /\ (HandlerAnswered' /\ Gated(last'.route.path)) =>
       last'.gate = "passed" /\ last'.user \in IssuedPayloads
  /\ tarefas' # tarefas => reqs[Client].kind = "api" /\ reqs[Client].pc = "handler"

\* C1: a request under one of the four protected prefixes reaches its
\* handler only after the gate verified the token (signature and expiry) and
\* put the decoded claims in req.user; otherwise it ends in one rejection,
\* 401 when no token was extracted and 403 when verification failed, the
\* handler does not run and the store is not touched.  The three auth routes
\* are not behind the gate.
C1_GateBeforeHandler == [][C1_Step]_vars

\* C1 witness: a protected handler has answered after the gate let the request through
C1_Witness == HandlerAnswered /\ last.gate = "passed" /\ last.status = 201

\* C2 as claimed: whenever a token is accepted (the gate lets the request
\* through, /verify answers valid:true) the signature verifies, the clock is
\* before the expiry and the user of the token is in the store with ativo = true.
C2_Original ==
  /\ GatePassed =>
       /\ last.tok.token \in issued
       /\ now < last.user.exp
       /\ SelectActiveById(last.user.userId) # {}
  /\ (VerifyAnswered /\ last.status = 200) =>
       /\ last.decoded \in IssuedPayloads
       /\ now < last.decoded.exp
       /\ SelectActiveById(last.decoded.userId) # {}

\* C2 amended: the gate accepts on signature and expiry alone, checked at
\* that moment; /verify checks signature and expiry when the request arrives
\* and answers valid:true only if its later SELECT finds the user with ativo = true.
C2_Amended ==
  /\ GatePassed => last.tok.token \in issued /\ now < last.user.exp
  /\ IsEvent("verify", "verified") =>
       last.tok.token \in issued /\ now < last.tok.token.payload.exp
  /\ (VerifyAnswered /\ last.status = 200) =>
       /\ last.decoded \in IssuedPayloads
       /\ SelectActiveById(last.decoded.userId) # {}
       /\ last.user.id = last.decoded.userId

\* C2 witness: the gate lets through the token of a user who is no longer active
C2_Witness == GatePassed /\ SelectActiveById(last.user.userId) = {}

\* C3: under every interleaving of registrations the store holds at most
\* one row per email and per cpf, and at most one registration per email and
\* per cpf is answered 201.
C3_Unique ==
  /\ \A i, j \in DOMAIN usuarios :
       (usuarios[i].email = usuarios[j].email \/ usuarios[i].cpf = usuarios[j].cpf) => i = j
  /\ \A a, b \in sent201 : (a.email = b.email \/ a.cpf = b.cpf) => a = b
  /\ \A a \in sent201 :
       a.id \in DOMAIN usuarios /\ usuarios[a.id].email = a.email /\ usuarios[a.id].cpf = a.cpf

\* C3 witness: two registrations passed their checks and only one was inserted
C3_Witness ==
  /\ IsEvent("register", "done") /\ last.status = 500 /\ last.collision
  /\ Cardinality(sent201) = 1

\* C4 as claimed: a registration whose email or cpf collides is answered 409
C4_Conflict == (IsEvent("register", "done") /\ last.collision) => last.status = 409

C6_SameAnswer ==
  IsEvent("login", "done") =>
    /\ last.cause # "none" <=> last.status \notin {200, 400, 500}
    /\ last.cause # "none" =>
         /\ last.status = 401
         /\ last.error = "Email ou senha incorretos"
         /\ last.details = "absent" /\ last.token = NoToken /\ last.user = NoUser

\* C6 witness: a login for the email of an inactive user was refused
C6_Witness == IsEvent("login", "done") /\ last.cause = "inactive"

Bearer(t) == <<Word("Bearer"), TokenWord(t)>>

\* C7: a token issued at t carries the id, email and nome it was issued for;
\* the gate accepts it with those claims at every time before t + 24h and
\* answers 403 'Token inválido ou expirado' from t + 24h on, where /verify
\* answers 401; nothing the server does changes that.
C7_Lifetime ==
  /\ \A t \in issued :
       LET p == t.payload
           g == authenticateToken(Bearer(t), now)
       IN /\ p.iat <= now
          /\ p.userId \in DOMAIN usuarios
          /\ usuarios[p.userId].email = p.email /\ usuarios[p.userId].nome = p.nome
          /\ now < p.iat + TokenTTL =>
               g.next /\ g.user.userId = p.userId /\ g.user.email = p.email /\ g.user.nome = p.nome
          /\ now >= p.iat + TokenTTL =>
               ~g.next /\ g.status = 403 /\ g.error = "Token inválido ou expirado"
  /\ (GatePassed /\ last.bearer) => now < last.tok.token.payload.iat + TokenTTL
  /\ (GateRejected /\ last.tok.token \in issued) =>
       /\ now >= last.tok.token.payload.iat + TokenTTL
       /\ last.status = 403 /\ last.error = "Token inválido ou expirado"
  /\ (VerifyRefusedEarly /\ last.tok.token \in issued) =>
       now >= last.tok.token.payload.iat + TokenTTL /\ last.status = 401

\* C7 witness: the gate answered 403 for a token the server had issued
C7_Witness == GateRejected /\ last.tok.token \in issued /\ last.bearer /\ last.status = 403

\* C8 as claimed: a header that is not of the form 'Bearer <token>' is
\* answered 401 and never reaches the verification of a token.
C8_Extract ==
  /\ GatePassed => last.bearer
  /\ IsEvent("verify", "verified") => last.bearer
  /\ (GateRejected /\ ~last.bearer) => last.status = 401
  /\ (VerifyRefusedEarly /\ ~last.bearer) => last.error = "Token não fornecido"

\* C9 as claimed: a store operation that throws for another reason than a
\* uniqueness violation ends login, register and /verify with 500 and a
\* details field, never with 401.
C9_StoreFailure ==
  (last.pc = "done" /\ last.kind \in {"login", "register", "verify"} /\ last.fault) =>
    last.status = 500 /\ last.details = "err.message"

\* what C10 asks of one step; byAdmin is the deactivation, no request's step
C10_Step ==
  LET q == reqs[Client]
      byAdmin == \E i \in DOMAIN usuarios : Deactivate(i)
      insert == /\ q.kind = "register" /\ q.pc = "insert"
                /\ IsEvent("register", "done")' /\ last'.status = 201
                /\ Len(usuarios') = Len(usuarios) + 1
                /\ SubSeq(usuarios', 1, Len(usuarios)) = usuarios
      update == /\ q.kind = "login" /\ q.pc = "update"
                /\ IsEvent("login", "done")' /\ last'.status = 200
                /\ DOMAIN usuarios' = DOMAIN usuarios
                /\ \A i \in DOMAIN usuarios :
                     IF i = q.user.id
                     THEN usuarios'[i] = [usuarios[i] EXCEPT !.ultima_atualizacao = now]
                     ELSE usuarios'[i] = usuarios[i]
  IN /\ usuarios' # usuarios => byAdmin \/ insert \/ update
     /\ ~byAdmin =>
          /\ Len(usuarios') >= Len(usuarios)
          /\ \A i \in DOMAIN usuarios : usuarios'[i].ativo = usuarios[i].ativo
     /\ (last'.pc = "done" /\ last'.kind \in {"login", "register"} /\ last'.status = 400) =>
          q.pc = "idle" /\ last'.io = "none" /\ usuarios' = usuarios
     /\ (IsEvent("login", "done")' /\ last'.status = 401) => usuarios' = usuarios
     /\ (IsEvent("register", "done")' /\ last'.status = 409) => usuarios' = usuarios
     /\ (IsEvent("register", "done")' /\ last'.status = 201) => insert
     /\ (q.kind \in {"verify", "api"} \/ last'.kind \in {"verify", "api"}) =>
          byAdmin \/ usuarios' = usuarios
     /\ (IsEvent("login", "done")' /\ last'.status = 200) =>
          update /\ usuarios'[q.user.id].ultima_atualizacao = now

\* C10: the usuarios table is changed only by a register at its INSERT,
\* which adds one row, and by a login at its UPDATE after lookup and password
\* check, which sets that user's ultima_atualizacao and nothing else; a 400
\* is answered before any query, a 401 login and a 409 register leave the
\* table as it was, /verify and the gate do not write, no request removes a
\* row or changes ativo, and the 200 of a login follows its UPDATE.
C10_Frame == [][C10_Step]_vars

\* C10 witness: a login was answered 200 and only its user's timestamp is set
C10_Witness ==
  /\ IsEvent("login", "done") /\ last.status = 200
  /\ Len(usuarios) = 2
  /\ \E i \in DOMAIN usuarios : i # last.user.id /\ usuarios[i].ultima_atualizacao = -1
  /\ usuarios[last.user.id].ultima_atualizacao = now
====
